---- MODULE Spec2Model ----
(***************************************************************************)
(* Speaker-identification engine of "Am I Talking Too Much?":              *)
(* voice_matcher.py (MFCC framing, GMM profile, match_voice),              *)
(* speaker_id.py (embedder, enrollment averaging, match_embedding) and the *)
(* session logic of app.py (init_session_state, render_calibration,        *)
(* render_tracking, main).                                                 *)
(*                                                                         *)
(* Units.  Amplitudes and RMS values are integers in units of 1e-4 of full *)
(* scale (0.0005 is 5, 0.005 is 50).  Log-likelihood scores are integers   *)
(* in nats.  Confidences are integers in units of 1/1000.  Cosine          *)
(* similarities and similarity thresholds are integers in units of 1/100.  *)
(* Durations are integers in seconds.                                      *)
(*                                                                         *)
(* Abstractions.  An audio buffer is [len, amp, tones, off]: len samples   *)
(* of constant magnitude amp, whose analysis frames carry the spectral     *)
(* content tones[1] (even frames) and tones[2] (odd frames); off is the    *)
(* offset of the buffer inside the recording it was cut from.  A feature   *)
(* matrix keeps its row count and, per tone, the number of rows with that  *)
(* content (mean and standard deviation do not depend on the row order).   *)
(* A fitted mixture density is the table density[tone] of the              *)
(* log-likelihood it gives to a row of that content.  A vector v is        *)
(* [num, den2, windows]: the components num[i] / sqrt(den2), and the       *)
(* sample windows of the recording that were embedded to obtain it;        *)
(* den2 = 0 is a vector of NaN components.                                 *)
(*                                                                         *)
(* Environment.  Each script run of the Streamlit application is one       *)
(* step.  Model loading, inference, gmm.fit and file writes may fail; the  *)
(* outcome is chosen by the step's parameters.  Spec is the session, with   *)
(* every Path.unlink succeeding; TrackSpec is a long tracking session;     *)
(* DiskSpec is the handlers that touch the two files, where an unlink may  *)
(* fail; FnSpec calls the library functions one at a time on inputs drawn  *)
(* from bounded sets.                                                      *)
(***************************************************************************)
EXTENDS Integers, Sequences, FiniteSets, TLC

\* ---------------------------------------------------------------- values

\* Python None, and an optional value as a sequence of length at most one.
None == <<>>

Some(x) == <<x>>

\* A float NaN (np.mean of an empty array, 0/0): every comparison with it is false.
NaN == -1000000

\* x < y on floats
FLess(x, y) == x # NaN /\ y # NaN /\ x < y

\* x >= y on floats
FGeq(x, y) == x # NaN /\ y # NaN /\ x >= y

Max(a, b) == IF a >= b THEN a ELSE b

Min(a, b) == IF a <= b THEN a ELSE b

RECURSIVE SqrtSearch(_, _, _)
SqrtSearch(n, lo, hi) ==
    IF lo >= hi THEN lo
    ELSE LET mid == (lo + hi + 1) \div 2
         IN  IF mid * mid <= n THEN SqrtSearch(n, mid, hi)
                               ELSE SqrtSearch(n, lo, mid - 1)

\* floor of the square root (np.sqrt, np.linalg.norm at the model's resolution)
ISqrt(n) == SqrtSearch(n, 0, Min(n, 46340))

\* ---------------------------------------------------------------- bounds

\* spectral contents are 0..MaxTone
MaxTone == 1

Tones == 0..MaxTone

\* log-likelihoods a fitted density may give to a row (nats)
LogLikValues == {-28, -24, -20}

Densities == [Tones -> LogLikValues]

\* ------------------------------------------------------------- constants

SAMPLE_RATE == 16000

FRAME_SIZE == 512

HOP_SIZE == 256

NUM_MFCC == 20

\* rms < 0.0005
SILENCE_FLOOR == 5

\* mfcc.shape[0] < 5
MIN_FRAMES == 5

\* min(16, max_components)
MAX_COMPONENTS == 16

\* n_frames // 20
FRAMES_PER_COMPONENT == 20

\* SPEECH_THRESHOLD = 0.005
SPEECH_THRESHOLD == 50

\* chunk_duration = 2.0 (seconds)
CHUNK_DURATION == 2

\* record_audio(10.0, ...) (seconds)
CALIBRATION_DURATION == 10

\* SpeakerEmbeddingConfig.similarity_threshold = 0.45
CONFIG_SIMILARITY_THRESHOLD == 45

\* st.session_state.speaker_similarity_threshold = 0.65
DEFAULT_SIMILARITY_THRESHOLD == 65

\* --------------------------------------------------------- audio buffers

Audio(len, amp, tones) == [len |-> len, amp |-> amp, tones |-> tones, off |-> 0]

\* audio_data[start:stop]
Slice(audio, start, stop) ==
    LET a == Min(start, audio.len)
        b == Min(Max(stop, a), audio.len)
    IN  [len |-> b - a, amp |-> audio.amp, tones |-> audio.tones, off |-> audio.off + a]

\* np.sqrt(np.mean(audio ** 2)); NaN for an empty buffer and for a buffer of
\* non-finite samples (amp = NaN)
calculate_rms(audio_data) ==
    IF audio_data.len = 0 \/ audio_data.amp = NaN THEN NaN
    ELSE ISqrt((audio_data.len * audio_data.amp * audio_data.amp) \div audio_data.len)

\* ------------------------------------------------------ voice_matcher.py

\* Variant: the frame count without the leading 1.
extract_mfcc_one_less(audio_data, sample_rate, num_mfcc, frame_size, hop_size) ==
    LET n0 == (audio_data.len - frame_size) \div hop_size
        padded == n0 < 1
        num_frames == IF padded THEN 1 ELSE n0
    IN  [rows |-> num_frames,
         cols |-> num_mfcc,
         buf_len |-> IF padded THEN audio_data.len + (frame_size - audio_data.len)
                     ELSE audio_data.len,
         last_end |-> (num_frames - 1) * hop_size + frame_size,
         tone_count |->
            [t \in Tones |->
                (IF audio_data.tones[1] = t THEN (num_frames + 1) \div 2 ELSE 0)
              + (IF audio_data.tones[2] = t THEN num_frames \div 2 ELSE 0)]]

\* Variant: a short input framed without being padded.
extract_mfcc_unpadded(audio_data, sample_rate, num_mfcc, frame_size, hop_size) ==
    LET n0 == 1 + (audio_data.len - frame_size) \div hop_size
        num_frames == IF n0 < 1 THEN 1 ELSE n0
    IN  [rows |-> num_frames,
         cols |-> num_mfcc,
         buf_len |-> audio_data.len,
         last_end |-> (num_frames - 1) * hop_size + frame_size,
         tone_count |->
            [t \in Tones |->
                (IF audio_data.tones[1] = t THEN (num_frames + 1) \div 2 ELSE 0)
              + (IF audio_data.tones[2] = t THEN num_frames \div 2 ELSE 0)]]

\* Frames i = 0..num_frames-1 read audio[i*hop : i*hop + frame_size].
extract_mfcc(audio_data, sample_rate, num_mfcc, frame_size, hop_size) ==
    LET n0 == 1 + (audio_data.len - frame_size) \div hop_size
        padded == n0 < 1
        num_frames == IF padded THEN 1 ELSE n0
        buf_len == IF padded THEN audio_data.len + (frame_size - audio_data.len)
                             ELSE audio_data.len
    IN  [rows |-> num_frames,
         cols |-> num_mfcc,
         buf_len |-> buf_len,
         last_end |-> (num_frames - 1) * hop_size + frame_size,
         tone_count |->
            [t \in Tones |->
                (IF audio_data.tones[1] = t THEN (num_frames + 1) \div 2 ELSE 0)
              + (IF audio_data.tones[2] = t THEN num_frames \div 2 ELSE 0)]]

\* gmm.score_samples(mfcc): per content, the log-likelihood and the number of rows
score_samples(gmm, mfcc) ==
    [t \in Tones |-> [score |-> gmm.density[t], n |-> mfcc.tone_count[t]]]

RECURSIVE WeightedSum(_, _, _)
WeightedSum(scores, shift, t) ==
    IF t > MaxTone THEN 0
    ELSE scores[t].n * (scores[t].score - shift) + WeightedSum(scores, shift, t + 1)

RECURSIVE WeightedSquares(_, _, _)
WeightedSquares(scores, shift, t) ==
    IF t > MaxTone THEN 0
    ELSE scores[t].n * (scores[t].score - shift) * (scores[t].score - shift)
         + WeightedSquares(scores, shift, t + 1)

RECURSIVE CountRows(_, _)
CountRows(scores, t) ==
    IF t > MaxTone THEN 0 ELSE scores[t].n + CountRows(scores, t + 1)

\* np.mean(scores)
Mean(scores) == WeightedSum(scores, 0, 0) \div CountRows(scores, 0)

\* np.std(scores)
Std(scores) == ISqrt(WeightedSquares(scores, Mean(scores), 0) \div CountRows(scores, 0))

\* Variant: the component count without the floor at 1.
NComponentsUnfloored(n_frames) == Min(MAX_COMPONENTS, n_frames \div FRAMES_PER_COMPONENT)

\* n_components = min(16, n_frames // 20), at least 1
NComponents(n_frames) ==
    LET max_components == n_frames \div FRAMES_PER_COMPONENT
        n_components == Min(MAX_COMPONENTS, max_components)
    IN  IF n_components < 1 THEN 1 ELSE n_components

\* GaussianMixture(n_components, 'diag').fit(mfcc); density is the fitted density.
\* weights_, means_, covariances_, precisions_cholesky_ are the row counts of
\* the fitted arrays.
Fit(n_components, density) ==
    [n_components |-> n_components,
     weights_ |-> n_components,
     means_ |-> n_components,
     covariances_ |-> n_components,
     precisions_cholesky_ |-> n_components,
     density |-> density]

\* Variant: the threshold placed 1.5 standard deviations above the training average.
create_voice_profile_above(audio_data, sample_rate, density) ==
    LET mfcc == extract_mfcc(audio_data, sample_rate, NUM_MFCC, FRAME_SIZE, HOP_SIZE)
        gmm == Fit(NComponents(mfcc.rows), density)
        scores == score_samples(gmm, mfcc)
    IN  [gmm |-> gmm, threshold_score |-> Mean(scores) + (3 * Std(scores)) \div 2]

\* create_voice_profile(audio_data, sample_rate); density is what gmm.fit finds
create_voice_profile(audio_data, sample_rate, density) ==
    LET mfcc == extract_mfcc(audio_data, sample_rate, NUM_MFCC, FRAME_SIZE, HOP_SIZE)
        n_frames == mfcc.rows
        gmm == Fit(NComponents(n_frames), density)
        scores == score_samples(gmm, mfcc)
        avg_score == Mean(scores)
        std_score == Std(scores)
        threshold_score == avg_score - (3 * std_score) \div 2
    IN  [gmm |-> gmm, threshold_score |-> threshold_score]

\* scipy.special.expit at x = h/2, in thousandths (h in half units)
ExpitTable == <<500, 622, 731, 818, 881, 924, 953, 971, 982, 989, 993, 996, 998,
                998, 999, 999>>

Expit(h) ==
    IF h >= 0 THEN (IF h < Len(ExpitTable) THEN ExpitTable[h + 1] ELSE 1000)
    ELSE (IF 0 - h < Len(ExpitTable) THEN 1000 - ExpitTable[(0 - h) + 1] ELSE 0)

\* average log-likelihood of a segment's frames under a profile
AvgScore(audio_segment, profile, sample_rate) ==
    Mean(score_samples(profile.gmm,
            extract_mfcc(audio_segment, sample_rate, NUM_MFCC, FRAME_SIZE, HOP_SIZE)))

\* Variant: match_voice without the RMS gate.
match_voice_ungated(audio_segment, profile, sample_rate) ==
    LET mfcc == extract_mfcc(audio_segment, sample_rate, NUM_MFCC, FRAME_SIZE, HOP_SIZE)
        diff == AvgScore(audio_segment, profile, sample_rate) - profile.threshold_score
    IN  IF mfcc.rows < MIN_FRAMES
        THEN [is_match |-> FALSE, confidence |-> 0, scored |-> FALSE]
        ELSE [is_match |-> diff > 0, confidence |-> Expit(diff), scored |-> TRUE]

\* Variant: match_voice deciding with diff >= 0.
match_voice_nonstrict(audio_segment, profile, sample_rate) ==
    LET rms == calculate_rms(audio_segment)
        mfcc == extract_mfcc(audio_segment, sample_rate, NUM_MFCC, FRAME_SIZE, HOP_SIZE)
        diff == AvgScore(audio_segment, profile, sample_rate) - profile.threshold_score
    IN  IF FLess(rms, SILENCE_FLOOR) \/ mfcc.rows < MIN_FRAMES
        THEN [is_match |-> FALSE, confidence |-> 0, scored |-> FALSE]
        ELSE [is_match |-> diff >= 0, confidence |-> Expit(diff), scored |-> TRUE]

\* match_voice(audio_segment, profile, sample_rate): (is_match, confidence);
\* scored tells whether profile.gmm was evaluated.
match_voice(audio_segment, profile, sample_rate) ==
    LET rms == calculate_rms(audio_segment)
        mfcc == extract_mfcc(audio_segment, sample_rate, NUM_MFCC, FRAME_SIZE, HOP_SIZE)
        scores == score_samples(profile.gmm, mfcc)
        avg_score == Mean(scores)
        diff == avg_score - profile.threshold_score
        \* 0.5 * diff, in half units
        half_diff == diff
    IN  IF FLess(rms, SILENCE_FLOOR)
        THEN [is_match |-> FALSE, confidence |-> 0, scored |-> FALSE]
        ELSE IF mfcc.rows < MIN_FRAMES
        THEN [is_match |-> FALSE, confidence |-> 0, scored |-> FALSE]
        ELSE [is_match |-> diff > 0, confidence |-> Expit(half_diff), scored |-> TRUE]

\* profile.gmm.score_samples(mfcc) validates its input and raises ValueError on
\* non-finite features; match_voice reaches it once both gates are passed and
\* does not catch it.
MatchVoiceRaises(audio_segment, profile, sample_rate) ==
    LET rms == calculate_rms(audio_segment)
        mfcc == extract_mfcc(audio_segment, sample_rate, NUM_MFCC, FRAME_SIZE, HOP_SIZE)
    IN  /\ ~FLess(rms, SILENCE_FLOOR)
        /\ mfcc.rows >= MIN_FRAMES
        /\ audio_segment.amp = NaN

\* Variant: to_dict leaving threshold_score out of the record.
to_dict_unthresholded(profile) ==
    [readable |-> TRUE,
     weights |-> Some(profile.gmm.weights_),
     means |-> Some([rows |-> profile.gmm.means_, density |-> profile.gmm.density]),
     covariances |-> Some(profile.gmm.covariances_),
     precisions_cholesky |-> Some(profile.gmm.precisions_cholesky_),
     threshold_score |-> None]

\* VoiceProfile.to_dict: the stored record; readable tells whether the file parses
to_dict(profile) ==
    [readable |-> TRUE,
     weights |-> Some(profile.gmm.weights_),
     means |-> Some([rows |-> profile.gmm.means_, density |-> profile.gmm.density]),
     covariances |-> Some(profile.gmm.covariances_),
     precisions_cholesky |-> Some(profile.gmm.precisions_cholesky_),
     threshold_score |-> Some(profile.threshold_score)]

\* load_profile raises: json.load fails, or from_dict misses a required key
LoadProfileRaises(data) ==
    \/ ~data.readable
    \/ data.weights = None
    \/ data.means = None
    \/ data.covariances = None
    \/ data.precisions_cholesky = None

\* data.get('threshold_score', -20.0)
DEFAULT_THRESHOLD_SCORE == -20

\* Variant: from_dict defaulting the threshold to 0.
from_dict_zero_default(data) ==
    [gmm |-> [n_components |-> data.weights[1],
              weights_ |-> data.weights[1],
              means_ |-> data.means[1].rows,
              covariances_ |-> data.covariances[1],
              precisions_cholesky_ |-> data.precisions_cholesky[1],
              density |-> data.means[1].density],
     threshold_score |-> IF data.threshold_score = None THEN 0
                         ELSE data.threshold_score[1]]

\* VoiceProfile.from_dict
from_dict(data) ==
    [gmm |-> [n_components |-> data.weights[1],
              weights_ |-> data.weights[1],
              means_ |-> data.means[1].rows,
              covariances_ |-> data.covariances[1],
              precisions_cholesky_ |-> data.precisions_cholesky[1],
              density |-> data.means[1].density],
     threshold_score |-> IF data.threshold_score = None THEN DEFAULT_THRESHOLD_SCORE
                         ELSE data.threshold_score[1]]

\* a profile file that json.load cannot read
UnreadableProfileFile ==
    [readable |-> FALSE, weights |-> None, means |-> None, covariances |-> None,
     precisions_cholesky |-> None, threshold_score |-> None]

\* a profile file that parses but has no 'weights' key
IncompleteProfileFile ==
    [readable |-> TRUE, weights |-> None, means |-> Some([rows |-> 1, density |-> <<>>]),
     covariances |-> Some(1), precisions_cholesky |-> Some(1), threshold_score |-> Some(-20)]

\* --------------------------------------------------------- speaker_id.py

\* str.lower() on the words an error text is made of
Lower(word) ==
    CASE word = "Unauthorized" -> "unauthorized"
      [] word = "Forbidden" -> "forbidden"
      [] word = "Gated" -> "gated"
      [] OTHER -> word

\* An exception is [wrapped, words, advice]: wrapped tells a RuntimeError raised
\* by SpeakerEmbedder.__init__ from the library's error, words are the words of
\* its text, advice tells whether the text says what to do about it.

\* RuntimeError("HuggingFace returned 401 Unauthorized. Please accept the model
\* license at ... and verify your HUGGING_FACE_API_KEY is valid.")
UNAUTHORIZED_ERROR ==
    [wrapped |-> TRUE, words |-> {"401", "Unauthorized", "license", "key"},
     advice |-> TRUE]

\* RuntimeError("HuggingFace returned 403 Forbidden. Your token may lack 'read'
\* scope ... Try creating a new token ... after accepting the license at ...")
FORBIDDEN_ERROR ==
    [wrapped |-> TRUE, words |-> {"403", "Forbidden", "license", "token"},
     advice |-> TRUE]

\* Variant: the 403 test made before the 401 test.
SpeakerEmbedderRaisesForbiddenFirst(e) ==
    IF "403" \in e.words \/ "Forbidden" \in e.words
       \/ "gated" \in {Lower(w) : w \in e.words}
    THEN FORBIDDEN_ERROR
    ELSE IF "401" \in e.words \/ "Unauthorized" \in e.words
    THEN UNAUTHORIZED_ERROR
    ELSE e

\* SpeakerEmbedder.__init__ when Model.from_pretrained raises e: the exception
\* that leaves the constructor
SpeakerEmbedderRaises(e) ==
    IF "401" \in e.words \/ "Unauthorized" \in e.words
    THEN UNAUTHORIZED_ERROR
    ELSE IF "403" \in e.words \/ "Forbidden" \in e.words
            \/ "gated" \in {Lower(w) : w \in e.words}
    THEN FORBIDDEN_ERROR
    ELSE e

\* outputs of the pretrained embedding model (components)
RawVectors == {<<0, 0>>, <<1, 0>>, <<-1, 0>>, <<3, 4>>, <<4, 3>>}

RECURSIVE DotFrom(_, _, _)
DotFrom(x, y, i) ==
    IF i > Len(x) THEN 0 ELSE x[i] * y[i] + DotFrom(x, y, i + 1)

Dot(x, y) == DotFrom(x, y, 1)

\* SpeakerEmbeddingConfig(similarity_threshold=...)
SpeakerEmbeddingConfig(similarity_threshold) ==
    [model_id |-> "pyannote/embedding", similarity_threshold |-> similarity_threshold]

\* SpeakerEmbedder(config, auth_token) once Model.from_pretrained has succeeded
SpeakerEmbedder(config) == [config |-> config]

\* embedder.embedding_from_audio(audio_data, sample_rate); out is the model's output
embedding_from_audio(self, audio_data, sample_rate, out) ==
    [num |-> out, den2 |-> 1,
     windows |-> << <<audio_data.off, audio_data.off + audio_data.len>> >>]

\* range(start, stop, step) for step > 0
PyRange(start, stop, step) ==
    LET n == IF stop <= start THEN 0 ELSE (stop - start + step - 1) \div step
    IN  [i \in 1..n |-> start + (i - 1) * step]

RECURSIVE SumNum(_, _)
SumNum(embeddings, i) ==
    IF i > Len(embeddings) THEN [j \in 1..Len(embeddings[1].num) |-> 0]
    ELSE [j \in 1..Len(embeddings[1].num) |->
            embeddings[i].num[j] + SumNum(embeddings, i + 1)[j]]

RECURSIVE AllWindows(_, _)
AllWindows(embeddings, i) ==
    IF i > Len(embeddings) THEN <<>>
    ELSE embeddings[i].windows \o AllWindows(embeddings, i + 1)

\* np.mean(embeddings, axis=0)
MeanVec(embeddings) ==
    [num |-> SumNum(embeddings, 1),
     den2 |-> embeddings[1].den2 * Len(embeddings) * Len(embeddings),
     windows |-> AllWindows(embeddings, 1)]

\* Variant: the average returned without dividing by its norm.
NormalizeSkipped(avg) == avg

\* avg / np.linalg.norm(avg); 0/0 gives NaN components
Normalize(avg) ==
    [num |-> avg.num,
     den2 |-> IF avg.den2 = 0 THEN 0 ELSE Dot(avg.num, avg.num),
     windows |-> avg.windows]

\* Variant: the loop bound one short, so that a window ending exactly at the
\* end of the recording is left out.
enroll_from_audio_one_short(self, audio_data, sample_rate, chunk_duration, outs) ==
    LET chunk_size == chunk_duration * sample_rate
        starts == PyRange(0, audio_data.len - chunk_size, chunk_size)
        embeddings ==
            [i \in 1..Len(starts) |->
                embedding_from_audio(self,
                    Slice(audio_data, starts[i], starts[i] + chunk_size),
                    sample_rate, outs[i])]
    IN  IF embeddings = <<>>
        THEN embedding_from_audio(self, audio_data, sample_rate, outs[1])
        ELSE Normalize(MeanVec(embeddings))

\* embedder.enroll_from_audio(audio_data, sample_rate, chunk_duration); outs[i] is
\* the model's output at the i-th inference
enroll_from_audio(self, audio_data, sample_rate, chunk_duration, outs) ==
    LET chunk_size == chunk_duration * sample_rate
        starts == PyRange(0, audio_data.len - chunk_size + 1, chunk_size)
        embeddings ==
            [i \in 1..Len(starts) |->
                embedding_from_audio(self,
                    Slice(audio_data, starts[i], starts[i] + chunk_size),
                    sample_rate, outs[i])]
    IN  IF embeddings = <<>>
        THEN embedding_from_audio(self, audio_data, sample_rate, outs[1])
        ELSE Normalize(MeanVec(embeddings))

\* save_embedding: the stored record
EmbeddingPayload(embedding) == [readable |-> TRUE, embedding |-> Some(embedding)]

\* load_embedding raises: json.load fails or the "embedding" key is missing
LoadEmbeddingRaises(payload) == ~payload.readable \/ payload.embedding = None

\* load_embedding
load_embedding(payload) == payload.embedding[1]

\* an embedding file that json.load cannot read
UnreadableEmbeddingFile == [readable |-> FALSE, embedding |-> None]

\* Variant: cosine_similarity dividing whatever the norms are (0/0 is NaN).
cosine_similarity_unguarded(a, b) ==
    IF a.den2 = 0 \/ b.den2 = 0 THEN NaN
    ELSE LET denom2 == Dot(a.num, a.num) * Dot(b.num, b.num)
             dot == Dot(a.num, b.num)
         IN  IF denom2 = 0 THEN NaN
             ELSE IF dot < 0 THEN 0 - ISqrt((10000 * dot * dot) \div denom2)
             ELSE ISqrt((10000 * dot * dot) \div denom2)

\* cosine_similarity(a, b), in hundredths
cosine_similarity(a, b) ==
    IF a.den2 = 0 \/ b.den2 = 0 THEN NaN
    ELSE LET denom2 == Dot(a.num, a.num) * Dot(b.num, b.num)
             dot == Dot(a.num, b.num)
             size == ISqrt((10000 * dot * dot) \div denom2)
         IN  IF denom2 = 0 THEN 0
             ELSE IF dot < 0 THEN 0 - size ELSE size

\* Python min(a, b) and max(a, b) on floats: a unless b compares below (above) it
PyMin(a, b) == IF FLess(b, a) THEN b ELSE a

PyMax(a, b) == IF FLess(a, b) THEN b ELSE a

\* Variant: match_embedding deciding with similarity > threshold.
match_embedding_exclusive(audio_data, sample_rate, embedder, enrolled_embedding, threshold, out) ==
    LET similarity_threshold ==
            IF threshold # None THEN threshold[1]
            ELSE embedder.config.similarity_threshold
        similarity == cosine_similarity(
            embedding_from_audio(embedder, audio_data, sample_rate, out),
            enrolled_embedding)
        rescaled == IF similarity = NaN THEN NaN ELSE (similarity + 100) * 5
    IN  [is_match |-> FLess(similarity_threshold, similarity),
         confidence |-> PyMax(0, PyMin(1000, rescaled)),
         similarity |-> similarity]

\* Variant: match_embedding behind the RMS gate of match_voice.
match_embedding_gated(audio_data, sample_rate, embedder, enrolled_embedding, threshold, out) ==
    LET similarity_threshold ==
            IF threshold # None THEN threshold[1]
            ELSE embedder.config.similarity_threshold
        similarity == cosine_similarity(
            embedding_from_audio(embedder, audio_data, sample_rate, out),
            enrolled_embedding)
        rescaled == IF similarity = NaN THEN NaN ELSE (similarity + 100) * 5
    IN  IF FLess(calculate_rms(audio_data), SILENCE_FLOOR)
        THEN [is_match |-> FALSE, confidence |-> 0, similarity |-> similarity]
        ELSE [is_match |-> FGeq(similarity, similarity_threshold),
              confidence |-> PyMax(0, PyMin(1000, rescaled)),
              similarity |-> similarity]

\* match_embedding(audio_data, sample_rate, embedder, enrolled_embedding, threshold);
\* threshold is None or Some(t); out is the model's output for the segment
match_embedding(audio_data, sample_rate, embedder, enrolled_embedding, threshold, out) ==
    LET similarity_threshold ==
            IF threshold # None THEN threshold[1]
            ELSE embedder.config.similarity_threshold
        current_embedding == embedding_from_audio(embedder, audio_data, sample_rate, out)
        similarity == cosine_similarity(current_embedding, enrolled_embedding)
        rescaled == IF similarity = NaN THEN NaN ELSE (similarity + 100) * 5
        confidence == PyMax(0, PyMin(1000, rescaled))
    IN  [is_match |-> FGeq(similarity, similarity_threshold),
         confidence |-> confidence,
         similarity |-> similarity]

\* ------------------------------------------------------------ app.py

\* chunks processed between two Start Tracking / Reset clicks
MaxChunks == 1

\* debug_logs[-20:]
LOG_LIMIT == 20

\* what record_audio(10.0, SAMPLE_RATE) may return at calibration
CalibrationAudios ==
    {Audio(CALIBRATION_DURATION * SAMPLE_RATE, 60, <<0, 0>>)}

\* what record_audio(chunk_duration, SAMPLE_RATE) may return while tracking
ChunkAudios ==
    {Audio(CHUNK_DURATION * SAMPLE_RATE, a, t) :
        a \in {SPEECH_THRESHOLD, 60}, t \in {<<0, 0>>, <<1, 1>>}}

\* densities gmm.fit may find at calibration
SessionDensities ==
    {[t \in Tones |-> IF t = 0 THEN -24 ELSE -20],
     [t \in Tones |-> IF t = 0 THEN -24 ELSE -28]}

\* outputs of the embedding model seen in a session
SessionVectors == {<<1, 0>>, <<3, 4>>}

\* the value given to an outcome that the run does not consult
Unused(S) == CHOOSE x \in S : TRUE

\* how open(path, "w") followed by json.dump(...) can end
WriteOutcomes == {"ok", "unopened", "torn"}

\* positions of the "Speaker match threshold" slider (0.4 .. 0.9)
SliderValues == {40, DEFAULT_SIMILARITY_THRESHOLD}

VARIABLES
    alive,                        \* a browser session (st.session_state) exists
    hf_key,                       \* HUGGING_FACE_API_KEY is set
    profile_file,                 \* PROFILE_PATH: None or Some(stored record)
    embedding_file,               \* SPEAKER_EMBEDDING_PATH: None or Some(stored record)
    voice_profile,
    speaker_embedding,
    speaker_embedder,
    speaker_embedding_error,
    speaker_use_embedding,
    speaker_similarity_threshold,
    profile_reset,
    calibration_audio,
    is_tracking,
    user_speaking_time,
    total_time,
    transcription,
    percentage_history,
    debug_logs,
    transcription_enabled,
    ev,                           \* the handler that ran last and what it did
    call                          \* last library call of the function harness

disk == <<profile_file, embedding_file>>

settings == <<speaker_use_embedding, speaker_similarity_threshold, transcription_enabled>>

counters == <<user_speaking_time, total_time, transcription, percentage_history, debug_logs>>

profiles == <<voice_profile, speaker_embedding, speaker_embedder, speaker_embedding_error>>

vars == <<alive, hf_key, profile_file, embedding_file, voice_profile, speaker_embedding,
          speaker_embedder, speaker_embedding_error, speaker_use_embedding,
          speaker_similarity_threshold, profile_reset, calibration_audio, is_tracking,
          user_speaking_time, total_time, transcription, percentage_history, debug_logs,
          transcription_enabled, ev, call>>

NoCall == [fn |-> "none"]

\* the counters of a session that has tracked nothing
NoCounters ==
    [user_speaking_time |-> 0, total_time |-> 0, percentage_history |-> <<>>,
     transcription |-> <<>>, debug_logs |-> <<>>]

\* What the last handler did.  scored: the chunk reached a matcher; method: the
\* matcher that decided it; cached: an embedder was cached when the handler began;
\* attempted / constructed: SpeakerEmbedder(...) was called / returned;
\* raised: the handler's try block raised; match_raised: match_embedding raised;
\* retry: the previous failure of the tracking loop was still on record;
\* failed_at: the step of Save Profile, or the load of the session start, that
\* raised; profile_found: the profile file existed when the session started;
\* rms: the RMS of the chunk; before: the counters as a tracking chunk or Stop
\* Tracking found them; had_profile, was_tracking: voice_profile was set and
\* is_tracking was on when the handler's script run began.
Ev(op) ==
    [op |-> op, scored |-> FALSE, method |-> "none", cached |-> speaker_embedder # None,
     attempted |-> FALSE, constructed |-> FALSE, raised |-> FALSE,
     match_raised |-> FALSE, retry |-> FALSE, is_user |-> FALSE, warned |-> FALSE,
     failed_at |-> "none", profile_found |-> FALSE, rms |-> 0, before |-> NoCounters,
     had_profile |-> voice_profile # None, was_tracking |-> is_tracking]

\* the counters as a handler found them
CountersNow ==
    [user_speaking_time |-> user_speaking_time, total_time |-> total_time,
     percentage_history |-> percentage_history, transcription |-> transcription,
     debug_logs |-> debug_logs]

TRACKING_ERROR == "Speaker embedding error"

\* Variant: a chunk at the threshold taken for speech.
SpeechDetectedInclusive(rms) == FGeq(rms, SPEECH_THRESHOLD)

\* rms > SPEECH_THRESHOLD
SpeechDetected(rms) == FLess(SPEECH_THRESHOLD, rms)

\* Variant: the embedding path taken whenever an embedding is enrolled.
UseEmbeddingPathAlways(use_embedding, embedding) == embedding # None

\* st.session_state.speaker_use_embedding and
\* st.session_state.speaker_embedding is not None
UseEmbeddingPath(use_embedding, embedding) == use_embedding /\ embedding # None

\* Variant: an embedder constructed whether or not one is cached.
NeedsEmbedderAlways(embedder) == TRUE

\* st.session_state.speaker_embedder is None
NeedsEmbedder(embedder) == embedder = None

\* Variant: the except clause keeping the cached embedder.
EmbedderKept(embedder) == embedder

\* st.session_state.speaker_embedder after the except clause of the tracking loop
EmbedderAfterFailure(embedder) == None

\* Variant: Re-calibrate leaving the file on disk.
UnlinkSkipped(file) == file

\* Path.unlink(missing_ok=True): the file is gone
Unlink(file) == None

\* Variant: the log kept whole.
LastNUncapped(seq, n) == seq

\* seq[-n:]
LastN(seq, n) ==
    IF Len(seq) <= n THEN seq ELSE SubSeq(seq, Len(seq) - n + 1, Len(seq))

\* st.session_state before init_session_state has run
NoSession ==
    /\ alive' = FALSE
    /\ hf_key' = FALSE
    /\ voice_profile' = None
    /\ speaker_embedding' = None
    /\ speaker_embedder' = None
    /\ speaker_embedding_error' = None
    /\ speaker_use_embedding' = FALSE
    /\ speaker_similarity_threshold' = DEFAULT_SIMILARITY_THRESHOLD
    /\ profile_reset' = FALSE
    /\ calibration_audio' = None
    /\ is_tracking' = FALSE
    /\ user_speaking_time' = 0
    /\ total_time' = 0
    /\ transcription' = <<>>
    /\ percentage_history' = <<>>
    /\ debug_logs' = <<>>
    /\ transcription_enabled' = FALSE

Init ==
    /\ alive = FALSE
    /\ hf_key = FALSE
    /\ profile_file \in {None, Some(UnreadableProfileFile), Some(IncompleteProfileFile)}
    /\ embedding_file \in {None, Some(UnreadableEmbeddingFile)}
    /\ voice_profile = None
    /\ speaker_embedding = None
    /\ speaker_embedder = None
    /\ speaker_embedding_error = None
    /\ speaker_use_embedding = FALSE
    /\ speaker_similarity_threshold = DEFAULT_SIMILARITY_THRESHOLD
    /\ profile_reset = FALSE
    /\ calibration_audio = None
    /\ is_tracking = FALSE
    /\ user_speaking_time = 0
    /\ total_time = 0
    /\ transcription = <<>>
    /\ percentage_history = <<>>
    /\ debug_logs = <<>>
    /\ transcription_enabled = FALSE
    /\ ev = Ev("none")
    /\ call = NoCall

\* Variant: embedding matching switched on at session start whatever was loaded.
UseEmbeddingDefaultOn(embedding) == TRUE

\* speaker_use_embedding = speaker_embedding is not None
UseEmbeddingDefault(embedding) == embedding # None

\* Variant: main() never showing the reset warning.
ResetWarningSkipped(profile, reset_flag) == FALSE

\* main(): voice_profile is None and profile_reset
ResetWarningShown(profile, reset_flag) == profile = None /\ reset_flag

\* First run of main() in a new session: init_session_state() on an empty
\* st.session_state, then the reset warning of main().  profile_unlinked,
\* embedding_unlinked: the unlink of a file that failed to load succeeds (an
\* exception of unlink is swallowed).
StartSessionWith(key, profile_unlinked, embedding_unlinked) ==
    /\ ~alive
    /\ alive' = TRUE
    /\ hf_key' = key
    /\ LET emb_raises == embedding_file # None /\ LoadEmbeddingRaises(embedding_file[1])
           prof_raises == profile_file # None /\ LoadProfileRaises(profile_file[1])
           embedding == IF embedding_file # None /\ ~emb_raises
                        THEN Some(load_embedding(embedding_file[1])) ELSE None
           profile == IF profile_file # None /\ ~prof_raises
                      THEN Some(from_dict(profile_file[1])) ELSE None
           reset_flag == prof_raises
           warned == ResetWarningShown(profile, reset_flag)
       IN  /\ speaker_embedder' = None
           /\ speaker_embedding' = embedding
           /\ speaker_embedding_error' =
                IF emb_raises THEN Some("Failed to load speaker embedding.") ELSE None
           /\ embedding_file' = IF emb_raises /\ embedding_unlinked
                                THEN Unlink(embedding_file) ELSE embedding_file
           /\ speaker_use_embedding' = UseEmbeddingDefault(embedding)
           /\ speaker_similarity_threshold' = DEFAULT_SIMILARITY_THRESHOLD
           /\ debug_logs' = <<>>
           /\ voice_profile' = profile
           /\ profile_file' = IF prof_raises /\ profile_unlinked
                              THEN Unlink(profile_file) ELSE profile_file
           /\ profile_reset' = IF warned THEN FALSE ELSE reset_flag
           /\ ev' = [Ev("start") EXCEPT
                        !.warned = warned,
                        !.raised = emb_raises \/ prof_raises,
                        !.profile_found = profile_file # None,
                        !.failed_at = IF emb_raises /\ prof_raises THEN "both"
                                      ELSE IF prof_raises THEN "profile_load"
                                      ELSE IF emb_raises THEN "embedding_load"
                                      ELSE "none"]
    /\ calibration_audio' = None
    /\ is_tracking' = FALSE
    /\ user_speaking_time' = 0
    /\ total_time' = 0
    /\ transcription' = <<>>
    /\ percentage_history' = <<>>
    /\ transcription_enabled' = FALSE
    /\ UNCHANGED call

\* a session start whose unlink calls succeed
StartSession(key) == StartSessionWith(key, TRUE, TRUE)

\* The browser session ends; the files stay.
EndSession ==
    /\ alive
    /\ NoSession
    /\ ev' = Ev("end")
    /\ UNCHANGED <<disk, call>>

\* main(): the screen a script run renders
Screen(profile) == IF profile = None THEN "calibration" ELSE "tracking"

\* Variant: the sidebar handlers run in every script run of the tracking screen.
SidebarReachedAlways(tracking) == TRUE

\* render_tracking: a run whose tracking loop is active ends at its st.rerun(),
\* before the sidebar and its handlers
SidebarReached(tracking) == ~tracking

\* render_calibration: "Start Recording (10 seconds)"
StartRecording(audio) ==
    /\ alive /\ Screen(voice_profile) = "calibration"
    /\ calibration_audio = None
    /\ calibration_audio' = Some(audio)
    /\ ev' = Ev("record")
    /\ UNCHANGED <<alive, hf_key, disk, profiles, settings, profile_reset, is_tracking,
                   counters, call>>

\* render_calibration: "Re-record"
ReRecord ==
    /\ alive /\ Screen(voice_profile) = "calibration"
    /\ calibration_audio # None
    /\ calibration_audio' = None
    /\ ev' = Ev("rerecord")
    /\ UNCHANGED <<alive, hf_key, disk, profiles, settings, profile_reset, is_tracking,
                   counters, call>>

\* the hint shown on both screens when HUGGING_FACE_API_KEY is not set
CredentialHintShown(key) == ~key

\* Variant: the except clause of Save Profile recording no message.
EnrollmentErrorSilent(failed) == None

\* speaker_embedding_error after Save Profile: cleared before the embedding
\* step, set by its except clause
EnrollmentError(failed) == IF failed THEN Some("Speaker embedding failed") ELSE None

\* render_calibration: "Save Profile".  fit_ok: gmm.fit succeeds, with density;
\* write: save_profile ends "ok", "unopened" (open fails) or "torn" (json.dump
\* fails after the file was truncated); construct_ok: SpeakerEmbedder(...)
\* succeeds; infer_ok: the model runs, with output out; save: save_embedding
\* ends "ok", "unopened" or "torn".  An exception of create_voice_profile or
\* save_profile ends the script run where it is raised.
SaveProfile(fit_ok, density, write, construct_ok, infer_ok, out, save) ==
    /\ alive /\ Screen(voice_profile) = "calibration"
    /\ calibration_audio # None
    /\ LET audio == calibration_audio[1]
           profile == create_voice_profile(audio, SAMPLE_RATE, density)
           written == fit_ok /\ write = "ok"
           attempted == written /\ hf_key /\ NeedsEmbedder(speaker_embedder)
           construct_raises == attempted /\ ~construct_ok
           embedder ==
               IF attempted
               THEN Some(SpeakerEmbedder(
                       SpeakerEmbeddingConfig(speaker_similarity_threshold)))
               ELSE speaker_embedder
           inferring == written /\ hf_key /\ ~construct_raises
           infer_raises == inferring /\ ~infer_ok
           embedding == embedding_from_audio(embedder[1], audio, SAMPLE_RATE, out)
           saving == inferring /\ infer_ok
           save_raises == saving /\ save # "ok"
           failed == construct_raises \/ infer_raises \/ save_raises
       IN  /\ ~fit_ok => density = Unused(SessionDensities)
           /\ ~fit_ok => write = "ok"
           /\ ~attempted => construct_ok
           /\ ~inferring => infer_ok
           /\ ~saving => out = Unused(SessionVectors)
           /\ ~saving => save = "ok"
           /\ IF ~fit_ok
              THEN /\ ev' = [Ev("save_profile") EXCEPT !.raised = TRUE,
                                                       !.failed_at = "fit"]
                   /\ UNCHANGED <<disk, profiles, calibration_audio>>
              ELSE IF ~written
              THEN /\ voice_profile' = Some(profile)
                   /\ profile_file' = IF write = "torn" THEN Some(UnreadableProfileFile)
                                      ELSE profile_file
                   /\ ev' = [Ev("save_profile") EXCEPT !.raised = TRUE,
                                                       !.failed_at = "profile_write"]
                   /\ UNCHANGED <<embedding_file, speaker_embedding, speaker_embedder,
                                  speaker_embedding_error, calibration_audio>>
              ELSE /\ voice_profile' = Some(profile)
                   /\ profile_file' = Some(to_dict(profile))
                   /\ speaker_embedder' =
                        IF construct_raises THEN speaker_embedder
                        ELSE IF hf_key THEN embedder ELSE speaker_embedder
                   /\ speaker_embedding' =
                        IF ~hf_key THEN speaker_embedding
                        ELSE IF failed THEN None ELSE Some(embedding)
                   /\ speaker_embedding_error' = EnrollmentError(failed)
                   /\ embedding_file' =
                        IF hf_key /\ ~failed THEN Some(EmbeddingPayload(embedding))
                        ELSE IF save_raises /\ save = "torn"
                        THEN Some(UnreadableEmbeddingFile)
                        ELSE embedding_file
                   /\ calibration_audio' = None
                   /\ ev' = [Ev("save_profile") EXCEPT
                                !.attempted = attempted,
                                !.constructed = attempted /\ construct_ok,
                                !.raised = failed,
                                !.failed_at = IF failed THEN "embedding" ELSE "none"]
    /\ UNCHANGED <<alive, hf_key, settings, profile_reset, is_tracking, counters, call>>

\* render_tracking: "Start Tracking"
StartTracking ==
    /\ alive /\ Screen(voice_profile) = "tracking"
    /\ ~is_tracking
    /\ is_tracking' = TRUE
    /\ user_speaking_time' = 0
    /\ total_time' = 0
    /\ transcription' = <<>>
    /\ percentage_history' = <<>>
    /\ debug_logs' = <<>>
    /\ ev' = Ev("start_tracking")
    /\ UNCHANGED <<alive, hf_key, disk, profiles, settings, profile_reset,
                   calibration_audio, call>>

\* render_tracking: "Stop Tracking"
StopTracking ==
    /\ alive /\ Screen(voice_profile) = "tracking"
    /\ is_tracking
    /\ is_tracking' = FALSE
    /\ ev' = [Ev("stop_tracking") EXCEPT !.before = CountersNow]
    /\ UNCHANGED <<alive, hf_key, disk, profiles, settings, profile_reset,
                   calibration_audio, counters, call>>

\* render_tracking: "Reset"
Reset ==
    /\ alive /\ Screen(voice_profile) = "tracking"
    /\ user_speaking_time' = 0
    /\ total_time' = 0
    /\ transcription' = <<>>
    /\ percentage_history' = <<>>
    /\ debug_logs' = <<>>
    /\ is_tracking' = FALSE
    /\ ev' = Ev("reset")
    /\ UNCHANGED <<alive, hf_key, disk, profiles, settings, profile_reset,
                   calibration_audio, call>>

\* render_tracking, the active tracking loop: one recorded chunk.
\* construct_ok: SpeakerEmbedder(...) succeeds; infer_ok: the embedding model
\* runs, with output out; heard: Whisper returns a non-empty text.
Chunk(audio, construct_ok, infer_ok, out, heard) ==
    /\ alive /\ Screen(voice_profile) = "tracking"
    /\ is_tracking
    /\ LET rms == calculate_rms(audio)
           speech == SpeechDetected(rms)
           try_embedding == UseEmbeddingPath(speaker_use_embedding, speaker_embedding)
           attempted == speech /\ try_embedding /\ NeedsEmbedder(speaker_embedder)
                        /\ hf_key
           construct_raises == attempted /\ ~construct_ok
           embedder ==
               IF attempted /\ construct_ok
               THEN Some(SpeakerEmbedder(
                        SpeakerEmbeddingConfig(speaker_similarity_threshold)))
               ELSE speaker_embedder
           call_embedding == speech /\ try_embedding /\ ~construct_raises
                             /\ embedder # None
           match_raises == call_embedding /\ ~infer_ok
           raised == construct_raises \/ match_raises
           used_embedding == call_embedding /\ ~match_raises
           result ==
               IF used_embedding
               THEN match_embedding(audio, SAMPLE_RATE, embedder[1], speaker_embedding[1],
                                    Some(speaker_similarity_threshold), out)
               ELSE match_voice(audio, voice_profile[1], SAMPLE_RATE)
           is_user == result.is_match
           match_method == IF used_embedding THEN "embedding" ELSE "gmm"
           new_total == total_time + CHUNK_DURATION
           new_user == IF is_user THEN user_speaking_time + CHUNK_DURATION
                       ELSE user_speaking_time
           log_entry == IF speech THEN match_method ELSE "(silence)"
       IN  /\ ~attempted => construct_ok
           /\ ~call_embedding => infer_ok
           /\ ~used_embedding => out = Unused(SessionVectors)
           /\ heard => (speech /\ transcription_enabled)
           /\ IF speech
              THEN /\ speaker_embedder' =
                        IF raised THEN EmbedderAfterFailure(embedder) ELSE embedder
                   /\ speaker_embedding_error' =
                        IF raised THEN Some(TRACKING_ERROR)
                        ELSE speaker_embedding_error
                   /\ total_time' = new_total
                   /\ user_speaking_time' = new_user
                   /\ percentage_history' =
                        Append(percentage_history, (new_user * 100) \div new_total)
                   /\ transcription' =
                        IF transcription_enabled /\ heard
                        THEN Append(transcription, IF is_user THEN "You" ELSE "Other")
                        ELSE transcription
                   /\ ev' = [Ev("chunk") EXCEPT !.scored = TRUE,
                                                !.method = match_method,
                                                !.cached = speaker_embedder # None,
                                                !.attempted = attempted,
                                                !.constructed = attempted /\ construct_ok,
                                                !.raised = raised,
                                                !.match_raised = match_raises,
                                                !.retry = speaker_embedding_error
                                                          = Some(TRACKING_ERROR),
                                                !.is_user = is_user,
                                                !.rms = rms,
                                                !.before = CountersNow]
              ELSE /\ ev' = [Ev("chunk") EXCEPT !.rms = rms, !.before = CountersNow]
                   /\ UNCHANGED <<speaker_embedder, speaker_embedding_error, total_time,
                                  user_speaking_time, percentage_history, transcription>>
           /\ debug_logs' = LastN(Append(debug_logs, log_entry), LOG_LIMIT)
    /\ UNCHANGED <<alive, hf_key, disk, voice_profile, speaker_embedding, settings,
                   profile_reset, calibration_audio, is_tracking, call>>

\* a chunk of a session that processes at most MaxChunks chunks between two
\* Start Tracking / Reset clicks
ProcessChunk(audio, construct_ok, infer_ok, out, heard) ==
    /\ Len(debug_logs) < MaxChunks
    /\ Chunk(audio, construct_ok, infer_ok, out, heard)

\* render_tracking, sidebar (rendered only while not tracking): the
\* "Use speaker embedding" toggle
ToggleUseEmbedding ==
    /\ alive /\ Screen(voice_profile) = "tracking"
    /\ SidebarReached(is_tracking)
    /\ speaker_use_embedding' = ~speaker_use_embedding
    /\ ev' = Ev("sidebar")
    /\ UNCHANGED <<alive, hf_key, disk, profiles, speaker_similarity_threshold,
                   transcription_enabled, profile_reset, calibration_audio, is_tracking,
                   counters, call>>

\* sidebar: the "Speaker match threshold" slider
SetThreshold(value) ==
    /\ alive /\ Screen(voice_profile) = "tracking"
    /\ SidebarReached(is_tracking)
    /\ value # speaker_similarity_threshold
    /\ speaker_similarity_threshold' = value
    /\ ev' = Ev("sidebar")
    /\ UNCHANGED <<alive, hf_key, disk, profiles, speaker_use_embedding,
                   transcription_enabled, profile_reset, calibration_audio, is_tracking,
                   counters, call>>

\* sidebar: the "Enable transcription" toggle
ToggleTranscription ==
    /\ alive /\ Screen(voice_profile) = "tracking"
    /\ SidebarReached(is_tracking)
    /\ transcription_enabled' = ~transcription_enabled
    /\ ev' = Ev("sidebar")
    /\ UNCHANGED <<alive, hf_key, disk, profiles, speaker_use_embedding,
                   speaker_similarity_threshold, profile_reset, calibration_audio,
                   is_tracking, counters, call>>

\* sidebar: "Re-calibrate Voice".  profile_unlinked, embedding_unlinked: the
\* unlink of the file succeeds (an OSError is swallowed).
RecalibrateWith(profile_unlinked, embedding_unlinked) ==
    /\ alive /\ Screen(voice_profile) = "tracking"
    /\ SidebarReached(is_tracking)
    /\ voice_profile' = None
    /\ profile_file' = IF profile_unlinked THEN Unlink(profile_file) ELSE profile_file
    /\ speaker_embedding' = None
    /\ speaker_embedder' = None
    /\ embedding_file' = IF embedding_unlinked THEN Unlink(embedding_file)
                         ELSE embedding_file
    /\ ev' = Ev("recalibrate")
    /\ UNCHANGED <<alive, hf_key, speaker_embedding_error, settings, profile_reset,
                   calibration_audio, is_tracking, counters, call>>

\* Re-calibrate whose unlink calls succeed
Recalibrate == RecalibrateWith(TRUE, TRUE)

Next ==
    \/ \E key \in BOOLEAN : StartSession(key)
    \/ EndSession
    \/ \E audio \in CalibrationAudios : StartRecording(audio)
    \/ ReRecord
    \/ \E fit_ok \in BOOLEAN, density \in SessionDensities, write \in WriteOutcomes,
          construct_ok \in BOOLEAN, infer_ok \in BOOLEAN, out \in SessionVectors,
          save \in WriteOutcomes :
            SaveProfile(fit_ok, density, write, construct_ok, infer_ok, out, save)
    \/ StartTracking
    \/ StopTracking
    \/ Reset
    \/ \E audio \in ChunkAudios, construct_ok \in BOOLEAN, infer_ok \in BOOLEAN,
          out \in SessionVectors, heard \in BOOLEAN :
            ProcessChunk(audio, construct_ok, infer_ok, out, heard)
    \/ ToggleUseEmbedding
    \/ \E value \in SliderValues : SetThreshold(value)
    \/ ToggleTranscription
    \/ Recalibrate

Spec == Init /\ [][Next]_vars

\* ------------------------------------------- app.py, a long tracking session

\* chunks with speech between two Start Tracking / Reset clicks
MaxSpeechChunks == 2

\* render_tracking: the percentage shown, 0 before anything was heard
Percentage(user, total) == IF total > 0 THEN (user * 100) \div total ELSE 0

\* the first session on an empty disk, without a credential
TrackInit ==
    /\ Init
    /\ profile_file = None
    /\ embedding_file = None

\* Save Profile where the fit and the write succeed
Enroll(density) ==
    SaveProfile(TRUE, density, "ok", TRUE, TRUE, Unused(SessionVectors), "ok")

\* a chunk of a session without embedding and without transcription; chunks
\* without speech are not bounded, chunks with speech are
TrackChunk(audio) ==
    /\ SpeechDetected(calculate_rms(audio)) =>
          total_time < MaxSpeechChunks * CHUNK_DURATION
    /\ Chunk(audio, TRUE, TRUE, Unused(SessionVectors), FALSE)

TrackNext ==
    \/ StartSession(FALSE)
    \/ \E audio \in CalibrationAudios : StartRecording(audio)
    \/ \E density \in SessionDensities : Enroll(density)
    \/ StartTracking
    \/ StopTracking
    \/ Reset
    \/ \E audio \in ChunkAudios : TrackChunk(audio)

TrackSpec == TrackInit /\ [][TrackNext]_vars

\* ------------------------------------- app.py, the files over several sessions

\* two enrollment recordings of different content
DiskRecordings ==
    {Audio(CALIBRATION_DURATION * SAMPLE_RATE, 60, t) : t \in {<<0, 0>>, <<1, 1>>}}

\* gmm.fit (random_state=42) and the embedding model are deterministic: the
\* density fitted on a recording and the model's output on it
FitOf(audio) ==
    IF audio.tones = <<0, 0>> THEN [t \in Tones |-> IF t = 0 THEN -24 ELSE -20]
    ELSE [t \in Tones |-> IF t = 0 THEN -24 ELSE -28]

Voiceprint(audio) == IF audio.tones = <<0, 0>> THEN <<1, 0>> ELSE <<3, 4>>

\* the profile and the embedding Save Profile makes of a recording
ProfileOf(audio) == create_voice_profile(audio, SAMPLE_RATE, FitOf(audio))

EmbeddingOf(audio) ==
    embedding_from_audio(
        SpeakerEmbedder(SpeakerEmbeddingConfig(DEFAULT_SIMILARITY_THRESHOLD)),
        audio, SAMPLE_RATE, Voiceprint(audio))

\* Save Profile on the recording at hand, the fit and the model giving what
\* they give on that recording
DiskSave(fit_ok, write, construct_ok, infer_ok, save) ==
    /\ calibration_audio # None
    /\ \E density \in SessionDensities, out \in SessionVectors :
          /\ fit_ok => density = FitOf(calibration_audio[1])
          /\ SaveProfile(fit_ok, density, write, construct_ok, infer_ok, out, save)
          /\ (hf_key /\ ev'.failed_at = "none") =>
                speaker_embedding' = Some(EmbeddingOf(calibration_audio[1]))

\* The handlers that read or write the two files, over any number of
\* sessions, an unlink being allowed to fail.
DiskNext ==
    \/ \E key \in BOOLEAN, profile_unlinked \in BOOLEAN, embedding_unlinked \in BOOLEAN :
            StartSessionWith(key, profile_unlinked, embedding_unlinked)
    \/ EndSession
    \/ \E audio \in DiskRecordings : StartRecording(audio)
    \/ ReRecord
    \/ \E fit_ok \in BOOLEAN, write \in WriteOutcomes, construct_ok \in BOOLEAN,
          infer_ok \in BOOLEAN, save \in WriteOutcomes :
            DiskSave(fit_ok, write, construct_ok, infer_ok, save)
    \/ \E profile_unlinked \in BOOLEAN, embedding_unlinked \in BOOLEAN :
            RecalibrateWith(profile_unlinked, embedding_unlinked)

DiskSpec == Init /\ [][DiskNext]_vars

\* ------------------------------------------------- properties of a session

\* the three conditions under which the tracking loop reaches match_embedding
EmbeddingSelected ==
    /\ speaker_use_embedding
    /\ speaker_embedding # None
    /\ (ev.cached \/ ev.constructed)

ScoredChunk == ev.op = "chunk" /\ ev.scored

\* C1 as stated: a scored chunk is decided by match_embedding if and only if
\* embedding matching is enabled, an enrolled embedding is present and an
\* embedder is available (cached, or constructed for this chunk); otherwise by
\* match_voice.
C1SelectionAsStated ==
    ScoredChunk =>
        /\ ev.method \in {"embedding", "gmm"}
        /\ (ev.method = "embedding") <=> EmbeddingSelected

\* C1, amended: a scored chunk is decided by match_embedding if and only if
\* embedding matching is enabled, an enrolled embedding is present, an embedder
\* is available and match_embedding does not raise on the chunk; in every other
\* case, a raise included, it is decided by match_voice.
C1Selection ==
    ScoredChunk =>
        /\ ev.method \in {"embedding", "gmm"}
        /\ (ev.method = "embedding") <=> (EmbeddingSelected /\ ~ev.match_raised)
        /\ ev.match_raised => EmbeddingSelected

\* C1: a scored chunk decided by match_embedding with an embedder constructed
\* for this chunk
C1Reached ==
    ScoredChunk /\ ev.constructed /\ ev.method = "embedding" /\ EmbeddingSelected

\* C2: when the embedding path raises during a chunk, the chunk is decided by
\* match_voice and the cached embedder is cleared while the feature stays
\* switched on with its embedding and credential; and every scored chunk that
\* starts with the feature on, an embedding enrolled, the credential set and no
\* cached embedder attempts a fresh construction, so the chunk after a failure
\* retries.
C2FallbackAndRetry ==
    ev.op = "chunk" =>
        /\ ev.raised =>
              /\ ev.scored
              /\ ev.method = "gmm"
              /\ speaker_embedder = None
              /\ speaker_use_embedding /\ speaker_embedding # None /\ hf_key
              /\ speaker_embedding_error = Some(TRACKING_ERROR)
        /\ (/\ ev.scored
            /\ speaker_use_embedding /\ speaker_embedding # None /\ hf_key
            /\ ~ev.cached) => ev.attempted
        /\ ev.attempted => ~ev.cached
        /\ (ev.attempted /\ ~ev.raised) => speaker_embedder # None

\* C2: a chunk that starts after an earlier chunk's failure, constructs a fresh
\* embedder and is decided by match_embedding
C2Reached ==
    ScoredChunk /\ ev.retry /\ ev.attempted /\ ev.constructed
    /\ ev.method = "embedding" /\ speaker_embedder # None

\* a profile the application can use now or after a restart
ProfileUsable ==
    \/ voice_profile # None
    \/ profile_file # None /\ ~LoadProfileRaises(profile_file[1])

ChunkAveraged(embedding) ==
    LET chunk_size == CHUNK_DURATION * SAMPLE_RATE
    IN  /\ Len(embedding.windows) >= 1
        /\ \A i \in 1..Len(embedding.windows) :
              embedding.windows[i] = <<(i - 1) * chunk_size, i * chunk_size>>

\* C6: every enrolled embedding that a tracking chunk is compared against was
\* built by embedding each non-overlapping 2 s window of the enrollment audio,
\* averaging and re-normalizing, not by one embedding of the whole clip.
C6EnrolledByChunkAveraging ==
    (ScoredChunk /\ ev.method = "embedding") => ChunkAveraged(speaker_embedding[1])

\* ------------------------------------------------ the library, call by call

\* Each step calls one function of voice_matcher.py or speaker_id.py on inputs
\* drawn from the sets below and records the call with what it returned; no
\* session is running.

session == <<alive, hf_key, profile_file, embedding_file, voice_profile, speaker_embedding,
             speaker_embedder, speaker_embedding_error, speaker_use_embedding,
             speaker_similarity_threshold, profile_reset, calibration_audio, is_tracking,
             user_speaking_time, total_time, transcription, percentage_history,
             debug_logs, transcription_enabled, ev>>

TonePairs == {<<a, b>> : a \in Tones, b \in Tones}

\* segment lengths: empty, one padded frame, four frames, five frames, one chunk
SegmentLengths == {0, 300, 1535, 1536, CHUNK_DURATION * SAMPLE_RATE}

\* amplitudes: digital silence, below the floor, at the floor, speech
SegmentAmplitudes == {0, 4, SILENCE_FLOOR, 60}

SegmentAudios ==
    {Audio(l, a, t) : l \in SegmentLengths, a \in SegmentAmplitudes, t \in TonePairs}

TrainingAudios == {Audio(CALIBRATION_DURATION * SAMPLE_RATE, 60, t) : t \in TonePairs}

Profiles == {create_voice_profile(a, SAMPLE_RATE, d) : a \in TrainingAudios, d \in Densities}

EmbeddingAudios == {Audio(CHUNK_DURATION * SAMPLE_RATE, a, <<0, 0>>) : a \in {0, 4, 60}}

Embedders ==
    {SpeakerEmbedder(SpeakerEmbeddingConfig(t)) : t \in {CONFIG_SIMILARITY_THRESHOLD, 80}}

\* enrollment recordings: shorter than a chunk, one sample short of a chunk,
\* one chunk, two chunks, three chunks and a sample
EnrollmentLengths == {1000, 31999, 32000, 64000, 96001}

EnrollmentAudios == {Audio(l, 60, <<0, 0>>) : l \in EnrollmentLengths}

ModelOutputs == [1..3 -> RawVectors]

\* embeddings an enrollment can have produced
EnrolledEmbeddings ==
    {enroll_from_audio(SpeakerEmbedder(SpeakerEmbeddingConfig(CONFIG_SIMILARITY_THRESHOLD)),
                       Audio(l, 60, <<0, 0>>), SAMPLE_RATE, CHUNK_DURATION,
                       <<x, y, y>>) :
        l \in {1000, 64000}, x \in {<<1, 0>>, <<3, 4>>}, y \in {<<1, 0>>, <<-1, 0>>, <<3, 4>>}}

Thresholds == {None, Some(0), Some(60), Some(100)}

FnInit ==
    /\ Init
    /\ profile_file = None
    /\ embedding_file = None

CallMatchVoice(audio, profile) ==
    /\ call = NoCall
    /\ call' = [fn |-> "match_voice", audio |-> audio, profile |-> profile,
                out |-> match_voice(audio, profile, SAMPLE_RATE)]
    /\ UNCHANGED session

\* create_voice_profile on a recording, then match_voice on the same recording
CallSelfMatch(audio, density) ==
    /\ call = NoCall
    /\ LET profile == create_voice_profile(audio, SAMPLE_RATE, density)
       IN  call' = [fn |-> "self_match", audio |-> audio, profile |-> profile,
                    out |-> match_voice(audio, profile, SAMPLE_RATE)]
    /\ UNCHANGED session

CallMatchEmbedding(audio, embedder, enrolled, threshold, out) ==
    /\ call = NoCall
    /\ call' = [fn |-> "match_embedding", audio |-> audio, embedder |-> embedder,
                enrolled |-> enrolled, threshold |-> threshold, model_out |-> out,
                out |-> match_embedding(audio, SAMPLE_RATE, embedder, enrolled,
                                        threshold, out)]
    /\ UNCHANGED session

CallEnroll(audio, outs) ==
    /\ call = NoCall
    /\ call' = [fn |-> "enroll_from_audio", audio |-> audio, outs |-> outs,
                out |-> enroll_from_audio(
                            SpeakerEmbedder(
                                SpeakerEmbeddingConfig(CONFIG_SIMILARITY_THRESHOLD)),
                            audio, SAMPLE_RATE, CHUNK_DURATION, outs)]
    /\ UNCHANGED session

RECURSIVE Flatten(_)
\* len(audio_data.flatten()) for an array of the given shape
Flatten(shape) ==
    IF shape = <<>> THEN 1 ELSE Head(shape) * Flatten(Tail(shape))

\* array shapes: empty, shorter than a frame, five frames, two channels, a column
SegmentShapes == {<<0>>, <<300>>, <<1536>>, <<2, 16000>>, <<32000, 1>>}

\* sample magnitudes: digital silence, speech, non-finite
RawAmplitudes == {0, 60, NaN}

\* match_voice on an array of any shape and content
CallMatchVoiceOn(shape, amp, tones, profile) ==
    /\ call = NoCall
    /\ LET audio == Audio(Flatten(shape), amp, tones)
           raised == MatchVoiceRaises(audio, profile, SAMPLE_RATE)
       IN  call' = [fn |-> "match_voice_on", shape |-> shape, audio |-> audio,
                    profile |-> profile, raised |-> raised,
                    out |-> IF raised THEN None
                            ELSE Some(match_voice(audio, profile, SAMPLE_RATE))]
    /\ UNCHANGED session

\* enrollment lengths: 1 frame, 39 and 40 frames, 319, 320 and 340 frames, 10 s
ProfileLengths ==
    {300, 10495, 10496, 81920, 82176, 87296, CALIBRATION_DURATION * SAMPLE_RATE}

CallCreateVoiceProfile(audio, density) ==
    /\ call = NoCall
    /\ call' = [fn |-> "create_voice_profile", audio |-> audio,
                profile |-> create_voice_profile(audio, SAMPLE_RATE, density)]
    /\ UNCHANGED session

\* input lengths around the frame and hop boundaries
FramingLengths == {0, 1, 255, 256, 399, 400, 511, 512, 767, 768, 1535, 1536}

\* (frame_size, hop_size): the defaults and a 25 ms / 10 ms framing
Framings == {<<FRAME_SIZE, HOP_SIZE>>, <<400, 160>>}

CallExtractMfcc(audio, num_mfcc, framing) ==
    /\ call = NoCall
    /\ call' = [fn |-> "extract_mfcc", audio |-> audio, num_mfcc |-> num_mfcc,
                frame_size |-> framing[1], hop_size |-> framing[2],
                out |-> extract_mfcc(audio, SAMPLE_RATE, num_mfcc, framing[1], framing[2])]
    /\ UNCHANGED session

\* a stored record with one array cut short or grown
Mismatched(d) ==
    {[d EXCEPT !.weights = Some(d.weights[1] + 1)],
     [d EXCEPT !.means = Some([rows |-> d.means[1].rows + 1,
                               density |-> d.means[1].density])],
     [d EXCEPT !.covariances = Some(0)],
     [d EXCEPT !.precisions_cholesky = Some(d.precisions_cholesky[1] + 1)]}

\* a stored record with one key missing
Incomplete(d) ==
    {[d EXCEPT !.weights = None],
     [d EXCEPT !.means = None],
     [d EXCEPT !.covariances = None],
     [d EXCEPT !.precisions_cholesky = None],
     [d EXCEPT !.threshold_score = None]}

\* what a profile file can hold: a saved profile, a damaged copy of one, or
\* something json.load cannot read
StoredProfiles ==
    {UnreadableProfileFile}
    \cup UNION {{to_dict(p)} \cup Mismatched(to_dict(p)) \cup Incomplete(to_dict(p)) :
                  p \in Profiles}

\* load_profile(filepath) on a file holding data
CallLoadProfile(data) ==
    /\ call = NoCall
    /\ LET raised == LoadProfileRaises(data)
       IN  call' = [fn |-> "load_profile", data |-> data, raised |-> raised,
                    out |-> IF raised THEN None ELSE Some(from_dict(data))]
    /\ UNCHANGED session

\* finite vectors, the zero vector among them
CosineVectors ==
    {[num |-> v, den2 |-> 1, windows |-> <<>>] :
        v \in RawVectors \cup {<<0, 2>>, <<-3, -4>>, <<-4, 3>>}}

CallCosineSimilarity(a, b) ==
    /\ call = NoCall
    /\ call' = [fn |-> "cosine_similarity", a |-> a, b |-> b,
                out |-> cosine_similarity(a, b)]
    /\ UNCHANGED session

\* recordings a stored profile is fitted on: 40 frames (2 components), 10 s (16)
StoredTrainingAudios ==
    {Audio(l, 60, t) : l \in {10496, CALIBRATION_DURATION * SAMPLE_RATE}, t \in TonePairs}

\* save_profile(profile, path) of a fitted profile, then load_profile(path)
CallSaveLoadProfile(audio, density) ==
    /\ call = NoCall
    /\ LET profile == create_voice_profile(audio, SAMPLE_RATE, density)
           data == to_dict(profile)
           raised == LoadProfileRaises(data)
       IN  call' = [fn |-> "save_load_profile", audio |-> audio, profile |-> profile,
                    data |-> data, raised |-> raised,
                    out |-> IF raised THEN None ELSE Some(from_dict(data))]
    /\ UNCHANGED session

\* embeddings that get saved: the output of one inference, or an enrollment
StoredEmbeddings ==
    EnrolledEmbeddings
    \cup {embedding_from_audio(SpeakerEmbedder(SpeakerEmbeddingConfig(
                                   CONFIG_SIMILARITY_THRESHOLD)),
                               a, SAMPLE_RATE, x) :
            a \in EmbeddingAudios, x \in RawVectors}

\* save_embedding(embedding, path), then load_embedding(path)
CallSaveLoadEmbedding(embedding) ==
    /\ call = NoCall
    /\ LET payload == EmbeddingPayload(embedding)
           raised == LoadEmbeddingRaises(payload)
       IN  call' = [fn |-> "save_load_embedding", embedding |-> embedding,
                    payload |-> payload, raised |-> raised,
                    out |-> IF raised THEN None ELSE Some(load_embedding(payload))]
    /\ UNCHANGED session

\* words of the texts of the errors Model.from_pretrained raises
ErrorWords ==
    {"401", "Unauthorized", "unauthorized", "403", "Forbidden", "forbidden", "gated",
     "Gated", "timeout"}

\* errors of Model.from_pretrained: up to two of the words, with or without advice
LoadErrors ==
    {[wrapped |-> FALSE, words |-> ws, advice |-> advice] :
        ws \in {s \in SUBSET ErrorWords : Cardinality(s) <= 2}, advice \in BOOLEAN}

\* SpeakerEmbedder(config, auth_token) when Model.from_pretrained raises e
CallSpeakerEmbedder(e) ==
    /\ call = NoCall
    /\ call' = [fn |-> "SpeakerEmbedder", err |-> e, raised |-> TRUE,
                out |-> SpeakerEmbedderRaises(e)]
    /\ UNCHANGED session

\* chunk durations (seconds) enrollment is called with
ChunkDurations == {1, CHUNK_DURATION, 3}

\* recording lengths around the multiples of the chunk sizes
WindowedLengths ==
    {0, 1000, 15999, 16000, 16001, 31999, 32000, 47999, 48000, 50000, 64000, 96001}

\* model outputs of up to four inferences
WindowOutputs == [1..4 -> {<<1, 0>>, <<3, 4>>}]

\* enroll_from_audio(audio_data, sample_rate, chunk_duration) for a chunk duration
\* of the caller's choice
CallEnrollWith(audio, chunk_duration, outs) ==
    /\ call = NoCall
    /\ audio.len \div (chunk_duration * SAMPLE_RATE) <= 3
    /\ call' = [fn |-> "enroll_with", audio |-> audio,
                chunk_duration |-> chunk_duration, outs |-> outs,
                out |-> enroll_from_audio(
                            SpeakerEmbedder(
                                SpeakerEmbeddingConfig(CONFIG_SIMILARITY_THRESHOLD)),
                            audio, SAMPLE_RATE, chunk_duration, outs)]
    /\ UNCHANGED session

Return ==
    /\ call # NoCall
    /\ call' = NoCall
    /\ UNCHANGED session

FnNext ==
    \/ /\ call = NoCall
       /\ \E audio \in SegmentAudios, profile \in Profiles : CallMatchVoice(audio, profile)
    \/ /\ call = NoCall
       /\ \E audio \in SegmentAudios, density \in Densities : CallSelfMatch(audio, density)
    \/ /\ call = NoCall
       /\ \E audio \in EmbeddingAudios, embedder \in Embedders, enrolled \in EnrolledEmbeddings,
             threshold \in Thresholds, out \in RawVectors :
               CallMatchEmbedding(audio, embedder, enrolled, threshold, out)
    \/ /\ call = NoCall
       /\ \E audio \in EnrollmentAudios, outs \in ModelOutputs : CallEnroll(audio, outs)
    \/ /\ call = NoCall
       /\ \E len \in ProfileLengths, tones \in TonePairs, density \in Densities :
               CallCreateVoiceProfile(Audio(len, 60, tones), density)
    \/ /\ call = NoCall
       /\ \E len \in FramingLengths, num_mfcc \in {13, NUM_MFCC}, framing \in Framings :
               CallExtractMfcc(Audio(len, 60, <<0, 0>>), num_mfcc, framing)
    \/ /\ call = NoCall
       /\ \E data \in StoredProfiles : CallLoadProfile(data)
    \/ /\ call = NoCall
       /\ \E a \in CosineVectors, b \in CosineVectors : CallCosineSimilarity(a, b)
    \/ /\ call = NoCall
       /\ \E shape \in SegmentShapes, amp \in RawAmplitudes, tones \in TonePairs,
             profile \in Profiles :
               CallMatchVoiceOn(shape, amp, tones, profile)
    \/ /\ call = NoCall
       /\ \E audio \in StoredTrainingAudios, density \in Densities :
               CallSaveLoadProfile(audio, density)
    \/ /\ call = NoCall
       /\ \E embedding \in StoredEmbeddings : CallSaveLoadEmbedding(embedding)
    \/ /\ call = NoCall
       /\ \E e \in LoadErrors : CallSpeakerEmbedder(e)
    \/ /\ call = NoCall
       /\ \E len \in WindowedLengths, chunk_duration \in ChunkDurations,
             outs \in WindowOutputs :
               CallEnrollWith(Audio(len, 60, <<0, 0>>), chunk_duration, outs)
    \/ Return

FnSpec == FnInit /\ [][FnNext]_vars

\* ----------------------------------------------- properties of the library

MatchVoiceCalled == call.fn \in {"match_voice", "self_match"}

Silent(audio) == FLess(calculate_rms(audio), SILENCE_FLOOR)

\* number of MFCC frames of a segment
Frames(audio) == extract_mfcc(audio, SAMPLE_RATE, NUM_MFCC, FRAME_SIZE, HOP_SIZE).rows

PassesGates(audio) == ~Silent(audio) /\ Frames(audio) >= MIN_FRAMES

\* average log-likelihood minus profile.threshold_score
Diff(audio, profile) == AvgScore(audio, profile, SAMPLE_RATE) - profile.threshold_score

Rejected == [is_match |-> FALSE, confidence |-> 0, scored |-> FALSE]

\* C4: for every segment whose RMS is below 0.0005, match_voice returns
\* (False, 0.0) whatever the profile, and the profile is not evaluated.
C4SilenceGate ==
    (MatchVoiceCalled /\ Silent(call.audio)) => call.out = Rejected

\* C4: a silent segment, long enough to be scored, that the profile would have
\* accepted, rejected by match_voice
C4Reached ==
    /\ call.fn = "match_voice"
    /\ Silent(call.audio)
    /\ Frames(call.audio) >= MIN_FRAMES
    /\ Diff(call.audio, call.profile) > 0
    /\ call.out = Rejected

\* the cosine similarity match_embedding computed in the recorded call
CallSimilarity ==
    cosine_similarity(
        embedding_from_audio(call.embedder, call.audio, SAMPLE_RATE, call.model_out),
        call.enrolled)

\* the threshold the recorded call of match_embedding has to apply
CallThreshold ==
    IF call.threshold # None THEN call.threshold[1]
    ELSE call.embedder.config.similarity_threshold

\* clamp((similarity + 1) / 2, 0, 1), in thousandths
Clamped(similarity) == Max(0, Min(1000, (similarity + 100) * 5))

\* C5 as stated: for every segment with RMS below 0.0005 match_embedding
\* returns (False, 0.0), whatever the enrolled embedding and the threshold.
C5EmbeddingSilenceGateAsStated ==
    (call.fn = "match_embedding" /\ Silent(call.audio)) =>
        (~call.out.is_match /\ call.out.confidence = 0)

\* C5, amended: match_embedding has no silence gate: for a segment with RMS
\* below 0.0005 it returns is_match = (similarity >= threshold) and
\* confidence = clamp((similarity+1)/2, 0, 1), the same result as for a loud
\* segment with the same embedding.
C5NoEmbeddingSilenceGate ==
    (call.fn = "match_embedding" /\ Silent(call.audio)) =>
        /\ call.out.is_match = FGeq(CallSimilarity, CallThreshold)
        /\ CallSimilarity # NaN => call.out.confidence = Clamped(CallSimilarity)
        /\ \A loud \in EmbeddingAudios :
              match_embedding(loud, SAMPLE_RATE, call.embedder, call.enrolled,
                              call.threshold, call.model_out) = call.out

\* C5: a silent segment that match_embedding reports as a match with full
\* confidence
C5Reached ==
    /\ call.fn = "match_embedding"
    /\ Silent(call.audio)
    /\ call.out.is_match
    /\ call.out.confidence = 1000

\* squared L2 norm 1
UnitNorm(v) == v.den2 # 0 /\ Dot(v.num, v.num) = v.den2

\* number of whole chunks in an enrollment recording
WholeChunks(audio) == audio.len \div (CHUNK_DURATION * SAMPLE_RATE)

RECURSIVE SumOutputs(_, _)
\* the sum of the model's first n outputs
SumOutputs(outs, n) ==
    IF n = 0 THEN <<0, 0>>
    ELSE LET rest == SumOutputs(outs, n - 1)
         IN  <<rest[1] + outs[n][1], rest[2] + outs[n][2]>>

\* C7 as stated: enroll_from_audio returns a unit-norm vector for every
\* non-empty enrollment recording, on the averaged path and on the whole-clip
\* fallback path.
C7UnitNormAsStated ==
    (call.fn = "enroll_from_audio" /\ call.audio.len > 0) => UnitNorm(call.out)

\* C7, amended: when the recording holds at least one whole chunk and the chunk
\* embeddings do not sum to zero, enroll_from_audio returns their average
\* scaled to unit L2 norm (a zero sum gives a NaN vector); when the recording
\* is shorter than one chunk it returns the whole-clip embedding as the model
\* produced it, with whatever norm that has.
C7UnitNormWhenAveraged ==
    call.fn = "enroll_from_audio" =>
        LET n == WholeChunks(call.audio)
            total == SumOutputs(call.outs, n)
        IN  /\ (n >= 1 /\ total # <<0, 0>>) =>
                  /\ UnitNorm(call.out)
                  /\ call.out.num = total
                  /\ Len(call.out.windows) = n
            /\ (n >= 1 /\ total = <<0, 0>>) => call.out.den2 = 0
            /\ n = 0 =>
                  /\ call.out.num = call.outs[1] /\ call.out.den2 = 1
                  /\ call.out.windows = << <<0, call.audio.len>> >>
                  /\ UnitNorm(call.out) <=> Dot(call.outs[1], call.outs[1]) = 1

\* C7: two chunks with different embeddings of norm 1 and 5, averaged to a
\* unit-norm vector
C7Reached ==
    /\ call.fn = "enroll_from_audio"
    /\ WholeChunks(call.audio) = 2
    /\ call.outs[1] = <<1, 0>> /\ call.outs[2] = <<3, 4>>
    /\ UnitNorm(call.out)

\* profiles the monotonicity of the confidence is compared over
ComparedProfiles ==
    {create_voice_profile(a, SAMPLE_RATE, d) : a \in TrainingAudios, d \in SessionDensities}

\* C8: for a segment that passes the silence and frame-count gates, match_voice
\* returns is_match = (diff > 0), strictly, and confidence = sigmoid(0.5*diff),
\* which lies in [0,1], is 0.5 at diff = 0 and is monotone non-decreasing in diff.
C8StatisticalRule ==
    (call.fn = "match_voice" /\ PassesGates(call.audio)) =>
        LET diff == Diff(call.audio, call.profile)
        IN  /\ call.out.scored
            /\ call.out.is_match = (diff > 0)
            /\ call.out.confidence = Expit(diff)
            /\ call.out.confidence >= 0 /\ call.out.confidence <= 1000
            /\ diff = 0 => (call.out.confidence = 500 /\ ~call.out.is_match)
            /\ \A other \in ComparedProfiles :
                  Diff(call.audio, other) <= diff =>
                      match_voice(call.audio, other, SAMPLE_RATE).confidence
                          <= call.out.confidence

\* C8: a scored segment exactly at the threshold: confidence 0.5 and no match
C8Reached ==
    /\ call.fn = "match_voice"
    /\ PassesGates(call.audio)
    /\ Diff(call.audio, call.profile) = 0
    /\ call.out = [is_match |-> FALSE, confidence |-> 500, scored |-> TRUE]

\* C9: match_embedding returns is_match = (similarity >= threshold), boundary
\* included, with the explicit threshold when one is passed and the embedder's
\* configured threshold otherwise, and confidence = clamp((similarity+1)/2, 0, 1),
\* which lies in [0,1], is 1.0 at similarity 1, 0.0 at similarity -1 and is
\* monotone non-decreasing in similarity.
C9EmbeddingRule ==
    call.fn = "match_embedding" =>
        LET similarity == CallSimilarity
        IN  /\ call.out.similarity = similarity
            /\ call.out.is_match = (similarity # NaN /\ similarity >= CallThreshold)
            /\ call.out.confidence >= 0 /\ call.out.confidence <= 1000
            /\ similarity # NaN =>
                  /\ call.out.confidence = Clamped(similarity)
                  /\ similarity = 100 => call.out.confidence = 1000
                  /\ similarity = -100 => call.out.confidence = 0
                  /\ \A other \in RawVectors :
                        LET r == match_embedding(call.audio, SAMPLE_RATE, call.embedder,
                                                 call.enrolled, call.threshold, other)
                        IN  (r.similarity # NaN /\ r.similarity <= similarity) =>
                                r.confidence <= call.out.confidence

\* C9: no explicit threshold, a similarity equal to the embedder's configured
\* threshold, reported as a match
C9Reached ==
    /\ call.fn = "match_embedding"
    /\ call.threshold = None
    /\ CallSimilarity = call.embedder.config.similarity_threshold
    /\ call.out.is_match

\* standard deviation of the training scores of a recording under its own profile
SelfStd(audio, profile) ==
    Std(score_samples(profile.gmm,
            extract_mfcc(audio, SAMPLE_RATE, NUM_MFCC, FRAME_SIZE, HOP_SIZE)))

\* C10 as stated: under the profile fitted from it, the enrollment recording
\* scores an average log-likelihood >= threshold_score and match_voice on it
\* returns is_match = True.
C10SelfMatchAsStated ==
    call.fn = "self_match" =>
        /\ AvgScore(call.audio, call.profile, SAMPLE_RATE) >= call.profile.threshold_score
        /\ call.out.is_match

\* C10, amended: under the profile fitted from it, the enrollment recording
\* scores an average log-likelihood >= threshold_score; match_voice on it
\* returns is_match = True exactly when the recording passes the silence gate
\* and the frame-count gate and its training scores have a positive standard
\* deviation (with zero deviation diff = 0, a non-match).
C10SelfMatch ==
    call.fn = "self_match" =>
        /\ AvgScore(call.audio, call.profile, SAMPLE_RATE) >= call.profile.threshold_score
        /\ call.out.is_match <=>
              (PassesGates(call.audio) /\ SelfStd(call.audio, call.profile) > 0)

\* C10: a recording that its own profile accepts
C10Reached ==
    /\ call.fn = "self_match"
    /\ call.out.is_match
    /\ AvgScore(call.audio, call.profile, SAMPLE_RATE) > call.profile.threshold_score

\* a segment that is empty, shorter than one frame or holds non-finite samples
Degenerate(audio) == audio.len < FRAME_SIZE \/ audio.amp = NaN

\* C11: match_voice never raises: for every segment, empty, shorter than one
\* frame, multi-dimensional or with non-finite samples, it returns a result,
\* and a degenerate segment yields (False, 0.0).
C11NeverRaises ==
    call.fn = "match_voice_on" =>
        /\ ~call.raised
        /\ call.out # None
        /\ Degenerate(call.audio) =>
              (~call.out[1].is_match /\ call.out[1].confidence = 0)

\* C12: match_voice returns (False, 0.0) whenever the feature matrix has fewer
\* than 5 frames; with frame size 512 and hop 256 these are exactly the
\* segments of fewer than 1536 samples, and no segment of 1536 or more samples
\* is rejected by this gate.
C12FrameGate ==
    call.fn = "match_voice" =>
        /\ (Frames(call.audio) < MIN_FRAMES) <=> (call.audio.len < 1536)
        /\ call.audio.len < 1536 => call.out = Rejected
        /\ (call.audio.len >= 1536 /\ ~Silent(call.audio)) => call.out.scored

\* C12: a loud segment of 1535 samples that the profile would have accepted,
\* rejected for its four frames
C12Reached ==
    /\ call.fn = "match_voice"
    /\ call.audio.len = 1535
    /\ ~Silent(call.audio)
    /\ Diff(call.audio, call.profile) > 0
    /\ call.out = Rejected

\* C13: create_voice_profile chooses k = max(1, min(16, floor(n_frames/20)))
\* mixture components for every frame count n_frames >= 1; a 10 s enrollment
\* at 16 kHz with frame 512 and hop 256 has 624 frames and k = 16.
C13ComponentCount ==
    call.fn = "create_voice_profile" =>
        LET n_frames == Frames(call.audio)
            k == call.profile.gmm.n_components
        IN  /\ n_frames >= 1
            /\ k = Max(1, Min(16, n_frames \div 20))
            /\ call.audio.len = 10 * 16000 => (n_frames = 624 /\ k = 16)

\* C13: the profile of a 10 s enrollment, 624 frames and 16 components
C13Reached ==
    /\ call.fn = "create_voice_profile"
    /\ call.audio.len = 160000
    /\ Frames(call.audio) = 624
    /\ call.profile.gmm.n_components = 16

\* C14: extract_mfcc returns at least one row for every input length, 0
\* included: 1 + floor((len - frame_size)/hop_size) rows when len >= frame_size
\* and exactly 1 row, the input zero-padded to one full frame, when
\* len < frame_size; every frame read lies inside the (padded) buffer, and the
\* column count is num_mfcc.
C14FeatureMatrixShape ==
    call.fn = "extract_mfcc" =>
        LET len == call.audio.len
            m == call.out
        IN  /\ m.rows >= 1
            /\ len >= call.frame_size =>
                  (m.rows = 1 + (len - call.frame_size) \div call.hop_size
                   /\ m.buf_len = len)
            /\ len < call.frame_size => (m.rows = 1 /\ m.buf_len = call.frame_size)
            /\ \A i \in 0..(m.rows - 1) :
                  i * call.hop_size + call.frame_size <= m.buf_len
            /\ m.last_end <= m.buf_len
            /\ m.cols = call.num_mfcc
            /\ CountRows(score_samples([density |-> [t \in Tones |-> 0]], m), 0) = m.rows

\* C14: an empty input, padded to one frame of 512 samples
C14Reached ==
    /\ call.fn = "extract_mfcc"
    /\ call.audio.len = 0
    /\ call.out.rows = 1
    /\ call.out.buf_len = 512

\* the arrays of a mixture all have one row per component
ConsistentShapes(profile) ==
    /\ profile.gmm.weights_ = profile.gmm.n_components
    /\ profile.gmm.means_ = profile.gmm.n_components
    /\ profile.gmm.covariances_ = profile.gmm.n_components
    /\ profile.gmm.precisions_cholesky_ = profile.gmm.n_components

\* C15: loading a stored profile whose arrays are truncated or of mismatched
\* lengths fails with an error; a VoiceProfile with inconsistent shapes is
\* never returned.
C15MismatchedProfileRejected ==
    (call.fn = "load_profile" /\ call.out # None) => ConsistentShapes(call.out[1])

\* ------------------------------------------ properties of the session start

ProfileLoadFailed == ev.op = "start" /\ ev.failed_at \in {"profile_load", "both"}

EmbeddingLoadFailed == ev.op = "start" /\ ev.failed_at \in {"embedding_load", "both"}

CompleteArrays(data) ==
    /\ data.readable
    /\ data.weights # None /\ data.means # None
    /\ data.covariances # None /\ data.precisions_cholesky # None

\* C18: loading a profile record that lacks threshold_score but is otherwise
\* complete succeeds and yields a profile whose threshold_score is -20.0.
C18DefaultThreshold ==
    (call.fn = "load_profile" /\ CompleteArrays(call.data)
        /\ call.data.threshold_score = None) =>
        /\ ~call.raised
        /\ call.out # None
        /\ call.out[1].threshold_score = -20
        /\ call.out[1].gmm.n_components = call.data.weights[1]
        /\ call.out[1].gmm.density = call.data.means[1].density

\* C18: a saved 16-component profile, its threshold_score removed from the
\* record, loaded with threshold -20
C18Reached ==
    /\ call.fn = "load_profile"
    /\ CompleteArrays(call.data)
    /\ call.data.threshold_score = None
    /\ call.data.weights = Some(16)
    /\ call.out # None
    /\ call.out[1].threshold_score = -20

\* C19: cosine_similarity returns exactly 0.0 whenever either argument, or
\* both, has zero norm, and dot(a,b)/(|a||b|) for two non-zero vectors (here
\* to the hundredth: out is the value truncated toward zero).
C19CosineSimilarity ==
    call.fn = "cosine_similarity" =>
        LET aa == Dot(call.a.num, call.a.num)
            bb == Dot(call.b.num, call.b.num)
            ab == Dot(call.a.num, call.b.num)
            out == call.out
            mag == IF out < 0 THEN 0 - out ELSE out
        IN  /\ out # NaN
            /\ (aa = 0 \/ bb = 0) => out = 0
            /\ (aa # 0 /\ bb # 0) =>
                  /\ mag * mag * aa * bb <= 10000 * ab * ab
                  /\ 10000 * ab * ab < (mag + 1) * (mag + 1) * aa * bb
                  /\ ab > 0 => out >= 0
                  /\ ab < 0 => out <= 0
                  /\ out >= -100 /\ out <= 100

\* C19: the zero vector against a non-zero vector, similarity 0.0
C19Reached ==
    /\ call.fn = "cosine_similarity"
    /\ call.a.num = <<0, 0>>
    /\ call.b.num = <<3, 4>>
    /\ call.out = 0

\* ------------------------------------------- properties of the embedder cache

\* handlers that drop the cached embedder: Re-calibrate, the end of the session
\* and a tracking chunk whose embedding path raised
DropsEmbedder ==
    \/ ev.op \in {"recalibrate", "end"}
    \/ ev.op = "chunk" /\ ev.raised

\* C20: the embedder is constructed lazily and cached: a session starts
\* without one, a construction happens only when none is cached and only at
\* Save Profile or in a tracking chunk, a session gets an embedder only by
\* such a construction, and a cached embedder is kept, without a new
\* construction, by every handler except an embedding error in a chunk,
\* Re-calibrate and the end of the session.
C20LazyCachedEmbedder ==
    /\ ev.op = "start" => speaker_embedder = None
    /\ ev.attempted => (~ev.cached /\ ev.op \in {"chunk", "save_profile"} /\ hf_key)
    /\ ev.constructed => ev.attempted
    /\ (~ev.cached /\ speaker_embedder # None) => ev.constructed
    /\ (ev.cached /\ ~DropsEmbedder) => (speaker_embedder # None /\ ~ev.constructed)

\* C20: a tracking chunk decided by match_embedding with the embedder that was
\* already cached, nothing constructed
C20Reached ==
    /\ ScoredChunk
    /\ ev.cached /\ ~ev.attempted /\ ~ev.constructed
    /\ ev.method = "embedding"
    /\ speaker_embedder # None
\* ------------------------------------- properties of a failed embedding step

\* Save Profile whose embedding step raised (construction, inference or save)
EmbeddingStepFailed == ev.op = "save_profile" /\ ev.failed_at = "embedding"

\* Save Profile that skipped the embedding step for lack of a credential
EmbeddingStepSkipped == ev.op = "save_profile" /\ ev.failed_at = "none" /\ ~hf_key

\* the profile of this enrollment is installed and is the one on disk
ProfileInstalledAndPersisted ==
    /\ voice_profile # None
    /\ profile_file = Some(to_dict(voice_profile[1]))
    /\ from_dict(profile_file[1]) = voice_profile[1]

MentionsUnauthorized(e) == "401" \in e.words \/ "Unauthorized" \in e.words

\* the error text mentions 403, Forbidden or, in any case, gated
MentionsForbidden(e) ==
    "403" \in e.words \/ "Forbidden" \in e.words \/ "gated" \in e.words
    \/ "Gated" \in e.words

\* the classification of C23: one of three outcomes, the unauthorized class
\* first, the third outcome being an error other than the first two
ThreeOutcomes ==
    /\ MentionsUnauthorized(call.err) => call.out = UNAUTHORIZED_ERROR
    /\ (~MentionsUnauthorized(call.err) /\ MentionsForbidden(call.err)) =>
          call.out = FORBIDDEN_ERROR
    /\ (~MentionsUnauthorized(call.err) /\ ~MentionsForbidden(call.err)) =>
          call.out \notin {UNAUTHORIZED_ERROR, FORBIDDEN_ERROR}
    /\ UNAUTHORIZED_ERROR # FORBIDDEN_ERROR

\* C23 as stated: a failed construction ends in exactly one of three outcomes,
\* the unauthorized class winning over the license class, and each of the
\* three carries an actionable message.
C23ThreeActionableOutcomesAsStated ==
    call.fn = "SpeakerEmbedder" =>
        /\ ThreeOutcomes
        /\ call.out.advice

\* C23: a failed construction ends in exactly one of three outcomes: an error
\* mentioning 401 or Unauthorized gives the unauthorized-credential error;
\* otherwise one mentioning 403, Forbidden or gated gives the license error;
\* both carry an actionable message, and the first wins when both match; any
\* other error leaves the constructor unchanged, with the text it came with,
\* which differs from both.
C23ThreeOutcomes ==
    call.fn = "SpeakerEmbedder" =>
        /\ call.raised
        /\ ThreeOutcomes
        /\ call.out \in {UNAUTHORIZED_ERROR, FORBIDDEN_ERROR} =>
              (call.out.advice /\ call.out.wrapped)
        /\ call.out \notin {UNAUTHORIZED_ERROR, FORBIDDEN_ERROR} =>
              (call.out = call.err /\ ~call.out.wrapped)

\* C23: an error text that mentions both 403 and 401, classified unauthorized
C23Reached ==
    /\ call.fn = "SpeakerEmbedder"
    /\ call.err.words = {"401", "403"}
    /\ call.out = UNAUTHORIZED_ERROR
\* --------------------------------------- properties of the enrollment windows

\* C24: enroll_from_audio with chunk size c embeds exactly floor(len/c)
\* windows, the i-th being [i*c, (i+1)*c) (i from 0): each of full length c,
\* inside the recording and not overlapping another; fewer than c samples are
\* left after the last window and are not embedded; when len < c no window is
\* embedded and the result is the one embedding of the whole clip.
C24EnrollmentWindows ==
    call.fn = "enroll_with" =>
        LET c == call.chunk_duration * SAMPLE_RATE
            len == call.audio.len
            n == len \div c
            w == call.out.windows
        IN  /\ n >= 1 =>
                  /\ Len(w) = n
                  /\ \A i \in 1..n : w[i] = <<(i - 1) * c, i * c>>
                  /\ \A i \in 1..n : w[i][2] - w[i][1] = c /\ w[i][2] <= len
                  /\ \A i, j \in 1..n : i < j => w[i][2] <= w[j][1]
                  /\ len - w[n][2] < c
            /\ n = 0 =>
                  /\ len < c
                  /\ w = << <<0, len>> >>
                  /\ call.out.num = call.outs[1] /\ call.out.den2 = 1

\* C24: a recording of three 1-second chunks and 2000 samples, embedded in three
\* windows, the tail left out
C24Reached ==
    /\ call.fn = "enroll_with"
    /\ call.chunk_duration = 1
    /\ call.audio.len = 50000
    /\ call.out.windows = << <<0, 16000>>, <<16000, 32000>>, <<32000, 48000>> >>
\* ------------------------------------------ properties of the tracking loop

\* C25: a tracking chunk whose RMS is at or below the speech threshold is not
\* scored by either matcher and leaves user_speaking_time, total_time,
\* percentage_history and the transcription as they were, adding only a log
\* entry; a chunk above the threshold is scored, adds one chunk duration to
\* total_time, adds one chunk duration to user_speaking_time exactly when the
\* decision is a match, and appends exactly one entry to percentage_history.
C25ChunkAccounting ==
    ev.op = "chunk" =>
        LET b == ev.before
            n == Len(b.percentage_history)
        IN  /\ ev.scored <=> ev.rms > SPEECH_THRESHOLD
            /\ ~ev.scored =>
                  /\ ev.method = "none" /\ ~ev.attempted /\ ~ev.is_user
                  /\ user_speaking_time = b.user_speaking_time
                  /\ total_time = b.total_time
                  /\ percentage_history = b.percentage_history
                  /\ transcription = b.transcription
                  /\ debug_logs = LastN(Append(b.debug_logs, "(silence)"), LOG_LIMIT)
            /\ ev.scored =>
                  /\ ev.method \in {"gmm", "embedding"}
                  /\ total_time = b.total_time + CHUNK_DURATION
                  /\ user_speaking_time =
                        b.user_speaking_time + (IF ev.is_user THEN CHUNK_DURATION ELSE 0)
                  /\ Len(percentage_history) = n + 1
                  /\ SubSeq(percentage_history, 1, n) = b.percentage_history
                  /\ percentage_history[n + 1] = (user_speaking_time * 100) \div total_time
                  /\ Len(debug_logs) = Min(Len(b.debug_logs) + 1, LOG_LIMIT)

\* C25: a chunk exactly at the speech threshold, logged as silence with the
\* counters untouched
C25Reached ==
    /\ ev.op = "chunk"
    /\ ev.rms = SPEECH_THRESHOLD
    /\ ~ev.scored
    /\ total_time = 0 /\ percentage_history = <<>>
    /\ debug_logs = <<"(silence)">>
\* C26: after any sequence of Start Tracking, Stop Tracking, Reset and
\* processed chunks, 0 <= user_speaking_time <= total_time, both are whole
\* multiples of the chunk duration, the percentage shown is in 0..100 (0 when
\* total_time is 0), percentage_history has total_time / chunk_duration
\* entries, each in 0..100, and debug_logs has at most 20 entries; Start
\* Tracking and Reset leave the counters, the history and the log zero or
\* empty, and Stop Tracking leaves them as they were.
C26CounterInvariants ==
    /\ 0 <= user_speaking_time /\ user_speaking_time <= total_time
    /\ user_speaking_time % CHUNK_DURATION = 0
    /\ total_time % CHUNK_DURATION = 0
    /\ Percentage(user_speaking_time, total_time) \in 0..100
    /\ total_time = 0 => Percentage(user_speaking_time, total_time) = 0
    /\ Len(percentage_history) = total_time \div CHUNK_DURATION
    /\ \A i \in 1..Len(percentage_history) : percentage_history[i] \in 0..100
    /\ Len(debug_logs) <= LOG_LIMIT
    /\ ev.op \in {"start_tracking", "reset"} => CountersNow = NoCounters
    /\ ev.op = "start_tracking" => is_tracking
    /\ ev.op = "reset" => ~is_tracking
    /\ ev.op = "stop_tracking" => (CountersNow = ev.before /\ ~is_tracking)

\* C26: a full log after more than 20 chunks, two of them with speech and one
\* of these the user's
C26Reached ==
    /\ ev.op = "chunk"
    /\ Len(ev.before.debug_logs) = LOG_LIMIT /\ Len(debug_logs) = LOG_LIMIT
    /\ total_time = 2 * CHUNK_DURATION
    /\ user_speaking_time = CHUNK_DURATION
    /\ Len(percentage_history) = 2
\* ------------------------------------------------ properties of the screens

\* handlers of the tracking screen and of the calibration screen
TrackingHandlers ==
    {"start_tracking", "stop_tracking", "reset", "chunk", "sidebar", "recalibrate"}

CalibrationHandlers == {"record", "rerecord", "save_profile"}

\* C27: match_voice is never called with an absent profile: a handler of the
\* tracking screen, the tracking loop included, runs only in a script run that
\* found voice_profile set, a handler of the calibration screen only in one
\* that found it none; tracking is on only while a profile is set; and
\* Re-calibrate, which clears the profile, runs only in a script run whose
\* tracking loop is not active, so never between the profile check and the
\* match call of a run.
C27ProfilePresentWhenMatching ==
    /\ ev.op \in TrackingHandlers => ev.had_profile
    /\ ev.op \in CalibrationHandlers => ~ev.had_profile
    /\ ev.op = "chunk" => (ev.was_tracking /\ voice_profile # None)
    /\ (ScoredChunk /\ ev.method = "gmm") => (ev.had_profile /\ voice_profile # None)
    /\ is_tracking => (alive /\ voice_profile # None)
    /\ ev.op = "recalibrate" =>
          (~ev.was_tracking /\ ~is_tracking /\ voice_profile = None)

\* C27: a chunk decided by match_voice in a run that found the profile set
C27Reached ==
    /\ ScoredChunk
    /\ ev.method = "gmm"
    /\ ev.had_profile /\ ev.was_tracking
    /\ voice_profile # None
\* ------------------------------------------ properties of the stored files

\* the profile file and the embedding file both load
BothFilesLoad ==
    /\ profile_file # None /\ ~LoadProfileRaises(profile_file[1])
    /\ embedding_file # None /\ ~LoadEmbeddingRaises(embedding_file[1])

\* C28: the stored artifacts stay consistent: whenever a loadable embedding
\* file is on disk next to a loadable profile file, both were made from the
\* same enrollment recording; and a session that starts with both a profile
\* and an embedding has loaded a pair made from one recording.
C28ArtifactsFromOneEnrollment ==
    /\ BothFilesLoad =>
          \E r \in DiskRecordings :
              /\ profile_file = Some(to_dict(ProfileOf(r)))
              /\ embedding_file = Some(EmbeddingPayload(EmbeddingOf(r)))
    /\ (ev.op = "start" /\ voice_profile # None /\ speaker_embedding # None) =>
          \E r \in DiskRecordings :
              /\ voice_profile = Some(ProfileOf(r))
              /\ speaker_embedding = Some(EmbeddingOf(r))

====
